---- MODULE Spec2Model ----
(***************************************************************************)
(* Document Intelligence MVP (Backend/main.py): the upload handler, the    *)
(* two-phase PDF text extraction, direct OCR of images and the four        *)
(* regular-expression rules of extract_fields.                             *)
(*                                                                         *)
(* A text is a sequence of characters, each character a one-character      *)
(* string.  The three non-ASCII characters of the amount pattern's         *)
(* mis-encoded rupee marker are written "u00E2", "u201A" and "u00B9".      *)
(***************************************************************************)
EXTENDS Integers, Sequences, FiniteSets, TLC

VARIABLES
    clock,    \* datetime.utcnow(), in ticks of 1/TicksPerSecond second
    files,    \* UPLOAD_DIR: stored file name -> content
    docs,     \* the documents table, in id order
    origin,   \* origin[id]: the payload the text of document id was extracted from
    req,      \* each upload request: its position, inputs, locals and response
    ftext,    \* a text handed to extract_fields on its own
    fres,     \* the field map extract_fields built for ftext
    fdone     \* extract_fields has run on ftext

vars == <<clock, files, docs, origin, req, ftext, fres, fdone>>

----------------------------------------------------------------------------
(* Characters and character classes of the patterns.                       *)

UpperSeq == <<"A", "B", "C", "D", "E", "F", "G", "H", "I", "J", "K", "L", "M",
              "N", "O", "P", "Q", "R", "S", "T", "U", "V", "W", "X", "Y", "Z">>

LowerSeq == <<"a", "b", "c", "d", "e", "f", "g", "h", "i", "j", "k", "l", "m",
              "n", "o", "p", "q", "r", "s", "t", "u", "v", "w", "x", "y", "z">>

Range(s) == {s[k] : k \in DOMAIN s}

\* \s
WS == {" ", "\n", "\t"}

\* \d and [0-9]
DIGIT == {"0", "1", "2", "3", "4", "5", "6", "7", "8", "9"}

\* [A-Za-z]
LETTER == Range(UpperSeq) \cup Range(LowerSeq)

\* [A-Za-z0-9\-_/]
TOKEN == LETTER \cup DIGIT \cup {"-", "_", "/"}

\* [A-Za-z0-9._%+-]
LOCALCH == LETTER \cup DIGIT \cup {".", "_", "%", "+", "-"}

\* [A-Za-z0-9.-]
DOMAINCH == LETTER \cup DIGIT \cup {".", "-"}

\* \w of a str pattern: alphanumerics (the non-ASCII ones included) and "_"
WORD == LETTER \cup DIGIT \cup {"_", "u00E2", "u00B9"}

\* re.I: letters compare by their lower-case form
Lower(c) ==
    IF c \in Range(UpperSeq)
    THEN LowerSeq[CHOOSE k \in DOMAIN UpperSeq : UpperSeq[k] = c]
    ELSE c

\* the value of a field that no rule has set
None == <<"None">>

----------------------------------------------------------------------------
(* Matching primitives.  Positions are 1-based; position Len(t) + 1 is the  *)
(* end of the text.                                                        *)

RECURSIVE Run(_, _, _, _)
\* how many characters of class cls follow from position p, at most maxn
Run(t, p, cls, maxn) ==
    IF maxn = 0 \/ p > Len(t) \/ t[p] \notin cls
    THEN 0
    ELSE 1 + Run(t, p + 1, cls, maxn - 1)

\* the literal s stands at position p (ci: ignoring case)
Lit(t, p, s, ci) ==
    /\ p + Len(s) - 1 <= Len(t)
    /\ \A k \in DOMAIN s :
          IF ci THEN Lower(t[p + k - 1]) = Lower(s[k]) ELSE t[p + k - 1] = s[k]

RECURSIVE Concat(_)
\* a sequence of sequences flattened, order kept
Concat(ss) == IF ss = <<>> THEN <<>> ELSE Head(ss) \o Concat(Tail(ss))

\* the ends a greedy \s* can reach from p, longest first
WsEnds(t, p) ==
    LET n == Run(t, p, WS, Len(t)) IN [k \in 1..(n + 1) |-> p + n - (k - 1)]

\* the ends an optional literal can reach from p: taken first, then skipped
OptEnds(t, p, lits, ci) ==
    LET hit == SelectSeq(lits, LAMBDA s : Lit(t, p, s, ci))
    IN  [k \in 1..Len(hit) |-> p + Len(hit[k])] \o <<p>>

\* the ends an optional single character of class cls can reach from p
OptCharEnds(t, p, cls) ==
    IF p <= Len(t) /\ t[p] \in cls THEN <<p + 1, p>> ELSE <<p>>

Min(S) == CHOOSE x \in S : \A y \in S : x <= y

Max(S) == CHOOSE x \in S : \A y \in S : x >= y

\* str.strip()
RECURSIVE LStrip(_)
LStrip(t) == IF t = <<>> \/ Head(t) \notin WS THEN t ELSE LStrip(Tail(t))

RECURSIVE RStrip(_)
RStrip(t) ==
    IF t = <<>> \/ t[Len(t)] \notin WS THEN t ELSE RStrip(SubSeq(t, 1, Len(t) - 1))

Strip(t) == RStrip(LStrip(t))

----------------------------------------------------------------------------
\* Rule 1, invoice number, with re.I:
\*   (invoice\s*(?:no|#|number)?\s*[:\-]?\s*)([A-Za-z0-9\-_/]+)

INVOICE == <<"i", "n", "v", "o", "i", "c", "e">>

InvoiceLabels == << <<"n", "o">>, <<"#">>, <<"n", "u", "m", "b", "e", "r">> >>

\* where group 1 can end when "invoice" ended before p, in the order the
\* backtracking matcher tries them
InvoicePrefixEnds(t, p) ==
    LET A == WsEnds(t, p)
        B == Concat([k \in DOMAIN A |-> OptEnds(t, A[k], InvoiceLabels, TRUE)])
        C == Concat([k \in DOMAIN B |-> WsEnds(t, B[k])])
        D == Concat([k \in DOMAIN C |-> OptCharEnds(t, C[k], {":", "-"})])
    IN  Concat([k \in DOMAIN D |-> WsEnds(t, D[k])])

\* group 2 of the match that starts at i, None when there is none
InvoiceAt(t, i) ==
    IF ~Lit(t, i, INVOICE, TRUE)
    THEN None
    ELSE LET ends == SelectSeq(InvoicePrefixEnds(t, i + Len(INVOICE)),
                               LAMBDA e : Run(t, e, TOKEN, Len(t)) >= 1)
         IN  IF ends = <<>>
             THEN None
             ELSE SubSeq(t, ends[1], ends[1] + Run(t, ends[1], TOKEN, Len(t)) - 1)

\* where re.search finds the pattern first, 0 when nowhere
InvoiceStart(t) ==
    LET starts == {i \in 1..Len(t) : InvoiceAt(t, i) /= None}
    IN  IF starts = {} THEN 0 ELSE Min(starts)

InvoiceSearch(t) ==
    IF InvoiceStart(t) = 0 THEN None ELSE InvoiceAt(t, InvoiceStart(t))

----------------------------------------------------------------------------
\* Rule 2, amount; the field is group(0).strip():
\*   (?<!\d)(?:USD|INR|Rs\.?|<rupee>|\$)?\s?([0-9]{1,3}(?:[, ]?[0-9]{3})*(?:\.[0-9]{1,2})?)

CurrencyMarkers == << <<"U", "S", "D">>, <<"I", "N", "R">>, <<"R", "s", ".">>,
                      <<"R", "s">>, <<"u00E2", "u201A", "u00B9">>, <<"$">> >>

RECURSIVE ThousandsEnd(_, _)
\* the repeated thousands group, (?:[, ]?[0-9]{3}) starred, from p
ThousandsEnd(t, p) ==
    IF p <= Len(t) /\ t[p] \in {",", " "} /\ Run(t, p + 1, DIGIT, 3) = 3
    THEN ThousandsEnd(t, p + 4)
    ELSE IF Run(t, p, DIGIT, 3) = 3
         THEN ThousandsEnd(t, p + 3)
         ELSE p

\* the end of group 1 when it starts at p (a digit stands at p)
NumberEnd(t, p) ==
    LET q == ThousandsEnd(t, p + Run(t, p, DIGIT, 3))
        d == IF q <= Len(t) /\ t[q] = "." THEN Run(t, q + 1, DIGIT, 2) ELSE 0
    IN  IF d >= 1 THEN q + 1 + d ELSE q

\* where the number can start when the match starts at i
AmountNumberStarts(t, i) ==
    LET A == OptEnds(t, i, CurrencyMarkers, FALSE)
        B == Concat([k \in DOMAIN A |-> OptCharEnds(t, A[k], WS)])
    IN  SelectSeq(B, LAMBDA b : b <= Len(t) /\ t[b] \in DIGIT)

\* group(0) of the match that starts at i, None when there is none
AmountAt(t, i) ==
    IF (i > 1 /\ t[i - 1] \in DIGIT) \/ AmountNumberStarts(t, i) = <<>>
    THEN None
    ELSE SubSeq(t, i, NumberEnd(t, AmountNumberStarts(t, i)[1]) - 1)

AmountSearch(t) ==
    LET starts == {i \in 1..Len(t) : AmountAt(t, i) /= None}
    IN  IF starts = {} THEN None ELSE Strip(AmountAt(t, Min(starts)))

----------------------------------------------------------------------------
\* Rule 3, email:  [A-Za-z0-9._%+-]+@[A-Za-z0-9.-]+\.[A-Za-z]{2,}

EmailAt(t, i) ==
    LET n  == Run(t, i, LOCALCH, Len(t))
        d0 == i + n + 1
        m  == Run(t, d0, DOMAINCH, Len(t))
        qs == {q \in (d0 + 1)..(d0 + m - 1) :
                  t[q] = "." /\ Run(t, q + 1, LETTER, Len(t)) >= 2}
    IN  IF n >= 1 /\ i + n <= Len(t) /\ t[i + n] = "@" /\ qs /= {}
        THEN SubSeq(t, i, Max(qs) + Run(t, Max(qs) + 1, LETTER, Len(t)))
        ELSE None

EmailSearch(t) ==
    LET starts == {i \in 1..Len(t) : EmailAt(t, i) /= None}
    IN  IF starts = {} THEN None ELSE EmailAt(t, Min(starts))

----------------------------------------------------------------------------
\* Rule 4, date:
\*   \b(\d{1,2}[/-]\d{1,2}[/-]\d{2,4}|\d{4}[/-]\d{1,2}[/-]\d{1,2})\b

IsWord(t, p) == p >= 1 /\ p <= Len(t) /\ t[p] \in WORD

\* \b at position p
Boundary(t, p) == IsWord(t, p - 1) /= IsWord(t, p)

IsDateSep(t, p) == p <= Len(t) /\ t[p] \in {"/", "-"}

\* the ends of \d{lo1,hi1}[/-]\d{1,2}[/-]\d{lo3,hi3}\b from i
DateAltEnds(t, i, lo1, hi1, lo3, hi3) ==
    {e \in i..(Len(t) + 1) :
        \E a \in lo1..hi1, b \in 1..2, c \in lo3..hi3 :
            /\ Run(t, i, DIGIT, a) = a
            /\ IsDateSep(t, i + a)
            /\ Run(t, i + a + 1, DIGIT, b) = b
            /\ IsDateSep(t, i + a + 1 + b)
            /\ Run(t, i + a + b + 2, DIGIT, c) = c
            /\ e = i + a + b + 2 + c
            /\ Boundary(t, e)}

\* group 1 of the match that starts at i, None when there is none
DateAt(t, i) ==
    LET first  == DateAltEnds(t, i, 1, 2, 2, 4)
        second == DateAltEnds(t, i, 4, 4, 1, 2)
    IN  IF ~Boundary(t, i) THEN None
        ELSE IF first /= {} THEN SubSeq(t, i, Max(first) - 1)
        ELSE IF second /= {} THEN SubSeq(t, i, Max(second) - 1)
        ELSE None

DateSearch(t) ==
    LET starts == {i \in 1..Len(t) : DateAt(t, i) /= None}
    IN  IF starts = {} THEN None ELSE DateAt(t, Min(starts))

----------------------------------------------------------------------------

\* fields = {"invoice_number": None, "amount": None, "email": None, "date": None}
NoFields == [invoice_number |-> None, amount |-> None, email |-> None, date |-> None]

extract_fields(text) ==
    [NoFields EXCEPT !.invoice_number = InvoiceSearch(text),
                     !.amount         = AmountSearch(text),
                     !.email          = EmailSearch(text),
                     !.date           = DateSearch(text)]

----------------------------------------------------------------------------
(* Payloads.  The bytes of an upload are described by what the libraries    *)
(* make of them: kind says which library can open them ("pdf": PyPDF2,     *)
(* "image": PIL, "garbage": neither), pages[k] is the selectable text of   *)
(* page k, ocr[k] the text tesseract reads from page k (of an image: from  *)
(* the image).  A backend is how the OCR tooling behaves during one call:  *)
(* raster "missing" (pdf2image cannot be imported), "fail"                 *)
(* (convert_from_bytes raises) or "ok"; the ocrFailAt-th call of           *)
(* pytesseract.image_to_string raises (0: none does).                      *)

MaxPages == 2

PageTexts == { <<>>, <<" ">>, <<"a">> }

OcrTexts == { <<>>, <<"7", "\n">>, <<"y">> }

PdfPayloads ==
    {[kind |-> "pdf", pages |-> pt, ocr |-> ot] :
        pt \in UNION {[1..n -> PageTexts] : n \in 1..MaxPages},
        ot \in UNION {[1..n -> OcrTexts] : n \in 1..MaxPages}}

Pdfs == {b \in PdfPayloads : Len(b.pages) = Len(b.ocr)}

Images == {[kind |-> "image", pages |-> <<>>, ocr |-> <<ot>>] : ot \in OcrTexts}

Garbage == [kind |-> "garbage", pages |-> <<>>, ocr |-> <<>>]

\* a file opened with "wb" and not written yet
EmptyFile == [kind |-> "empty", pages |-> <<>>, ocr |-> <<>>]

Backends ==
    [raster : {"ok", "missing", "fail"}, ocrFailAt : 0..MaxPages]

NoBackend == [raster |-> "ok", ocrFailAt |-> 0]

PDF == "application/pdf"

ImageTypes ==
    {"image/png", "image/jpeg", "image/jpg", "image/webp", "image/bmp", "image/tiff"}

\* what an extraction hands back: raised (an exception left the function),
\* the text, and the calls it made of pytesseract.image_to_string (the page
\* of each, in call order) and of convert_from_bytes
Raised(calls, rcalls) ==
    [raised |-> TRUE, text |-> <<>>, ocrCalls |-> calls, rasterCalls |-> rcalls]

Returned(text, calls, rcalls) ==
    [raised |-> FALSE, text |-> text, ocrCalls |-> calls, rasterCalls |-> rcalls]

----------------------------------------------------------------------------

\* Image.open(...).convert("RGB"), then pytesseract.image_to_string(img)
ocr_image_bytes(b, be) ==
    IF b.kind /= "image" THEN Raised(<<>>, 0)
    ELSE IF be.ocrFailAt = 1 THEN Raised(<<1>>, 0)
    ELSE Returned(b.ocr[1], <<1>>, 0)

RECURSIVE Phase1Text(_)
\* text += page_text + "\n", for page in reader.pages
Phase1Text(pages) ==
    IF pages = <<>> THEN <<>>
    ELSE (Head(pages) \o <<"\n">>) \o Phase1Text(Tail(pages))

\* the guard gone: phase 2 runs whatever phase 1 found
NeedsOcrAlways(text) == TRUE

\* if not text
NeedsOcr(text) == text = <<>>

RECURSIVE Join(_, _)
\* sep.join(parts)
Join(parts, sep) ==
    IF parts = <<>> THEN <<>>
    ELSE IF Len(parts) = 1 THEN parts[1]
    ELSE (Head(parts) \o sep) \o Join(Tail(parts), sep)

\* the images read last page first
OcrOrderReversed(n) == [k \in 1..n |-> n + 1 - k]

\* for img in images: the pages in the order they are read
OcrOrder(n) == [k \in 1..n |-> k]

\* the loop over the images: the pages whose OCR was called, the outputs
\* appended to ocr_text, and whether a call raised
OcrLoop(ocr, be) ==
    LET order  == OcrOrder(Len(ocr))
        failed == be.ocrFailAt \in 1..Len(ocr)
        called == IF failed THEN be.ocrFailAt ELSE Len(ocr)
        got    == IF failed THEN be.ocrFailAt - 1 ELSE Len(ocr)
    IN  [calls   |-> SubSeq(order, 1, called),
         outputs |-> [k \in 1..got |-> ocr[order[k]]],
         failed  |-> failed]

\* the handler keeping what the pages before the failure gave
OcrExceptKeepsPartial(outputs) == Strip(Join(outputs, <<"\n">>))

\* except Exception: text = ""
OcrExcept(outputs) == <<>>

\* the body of "if not text": rasterize, OCR each page, join, strip
OcrFallback(b, be) ==
    IF be.raster = "missing" THEN Returned(OcrExcept(<<>>), <<>>, 0)
    ELSE IF be.raster = "fail" THEN Returned(OcrExcept(<<>>), <<>>, 1)
    ELSE LET loop == OcrLoop(b.ocr, be)
         IN  IF loop.failed
             THEN Returned(OcrExcept(loop.outputs), loop.calls, 1)
             ELSE Returned(Strip(Join(loop.outputs, <<"\n">>)), loop.calls, 1)

extract_text_from_pdf(b, be) ==
    IF b.kind /= "pdf" THEN Raised(<<>>, 0)
    ELSE LET text == Strip(Phase1Text(b.pages))
         IN  IF NeedsOcr(text) THEN OcrFallback(b, be) ELSE Returned(text, <<>>, 0)

\* the "Extract text" part of upload: the extraction's result and how the
\* request goes on: "ok", "unsupported" (the 400 response) or "raised" (the
\* exception leaves the handler)
ExtractText(b, ctype, be) ==
    LET res == IF ctype = PDF THEN extract_text_from_pdf(b, be)
               ELSE ocr_image_bytes(b, be)
        how == IF ~res.raised THEN "ok"
               ELSE IF ctype \in ImageTypes \cup {PDF} THEN "raised"
               ELSE "unsupported"
    IN  [res |-> res, outcome |-> how]

----------------------------------------------------------------------------
(* The upload handler.  It is a coroutine: other requests run while it      *)
(* awaits the read of the body, the opening of the file and the write.     *)
(* From the extraction to the commit it does not await.                    *)

NumReqs == 2

MaxClock == 3

TicksPerSecond == 2

Reqs == 1..NumReqs

\* strftime('%Y%m%d-%H%M%S'): the instant cut to its second
Stamp(t) == t \div TicksPerSecond

\* filename.replace(' ', '_')
Underscored(name) == [k \in DOMAIN name |-> IF name[k] = " " THEN "_" ELSE name[k]]

\* f"{stamp}_{name}": the stamp has a fixed width, so the pair is the string
SafeName(t, filename) == [stamp |-> Stamp(t), name |-> Underscored(filename)]

Idle ==
    [pc |-> "read", content |-> EmptyFile, filename |-> <<>>, content_type |-> "",
     safe_name |-> SafeName(0, <<>>), backend |-> NoBackend, outcome |-> "none",
     returned |-> <<>>, text |-> <<>>, ocrCalls |-> <<>>, rasterCalls |-> 0,
     id |-> 0]

UploadInit ==
    /\ clock = 0
    /\ files = <<>>
    /\ docs = <<>>
    /\ origin = <<>>
    /\ req = [r \in Reqs |-> Idle]

Init ==
    /\ UploadInit
    /\ ftext = <<>>
    /\ fres = NoFields
    /\ fdone = FALSE

Tick ==
    /\ clock < MaxClock
    /\ clock' = clock + 1
    /\ UNCHANGED <<files, docs, origin, req, ftext, fres, fdone>>

\* content = await file.read(); filename; content_type; safe_name; save_path
UploadRead(r, payloads, names, ctypes) ==
    /\ req[r].pc = "read"
    /\ \E b \in payloads, fn \in names, ct \in ctypes :
          req' = [req EXCEPT ![r] = [@ EXCEPT !.pc = "open",
                                              !.content = b,
                                              !.filename = fn,
                                              !.content_type = ct,
                                              !.safe_name = SafeName(clock, fn)]]
    /\ UNCHANGED <<clock, files, docs, origin, ftext, fres, fdone>>

\* async with aiofiles.open(save_path, "wb") as f
UploadOpen(r) ==
    /\ req[r].pc = "open"
    /\ files' = [n \in DOMAIN files \cup {req[r].safe_name} |->
                    IF n = req[r].safe_name THEN EmptyFile ELSE files[n]]
    /\ req' = [req EXCEPT ![r].pc = "write"]
    /\ UNCHANGED <<clock, docs, origin, ftext, fres, fdone>>

\* await f.write(content), and the file closed
UploadWrite(r) ==
    /\ req[r].pc = "write"
    /\ files' = [n \in DOMAIN files \cup {req[r].safe_name} |->
                    IF n = req[r].safe_name THEN req[r].content ELSE files[n]]
    /\ req' = [req EXCEPT ![r].pc = "extract"]
    /\ UNCHANGED <<clock, docs, origin, ftext, fres, fdone>>

\* the row db.add(doc) stores
Document(id, safe_name, ctype, text, fields, now) ==
    [id |-> id, filename |-> safe_name, content_type |-> ctype, text |-> text,
     invoice_number |-> fields.invoice_number, amount |-> fields.amount,
     email |-> fields.email, date |-> fields.date, created_at |-> now]

\* from "Extract text" to the response, under the backend be
UploadProcess(r, backends) ==
    /\ req[r].pc = "extract"
    /\ \E be \in backends :
          LET ex   == ExtractText(req[r].content, req[r].content_type, be)
              text == Strip(ex.res.text)
              id   == Len(docs) + 1
              ok   == ex.outcome = "ok"
          IN  /\ req' = [req EXCEPT ![r] = [@ EXCEPT !.pc = "done",
                                                      !.backend = be,
                                                      !.outcome = ex.outcome,
                                                      !.returned = ex.res.text,
                                                      !.text = text,
                                                      !.ocrCalls = ex.res.ocrCalls,
                                                      !.rasterCalls = ex.res.rasterCalls,
                                                      !.id = IF ok THEN id ELSE 0]]
              /\ docs' = IF ok
                         THEN Append(docs, Document(id, req[r].safe_name,
                                                    req[r].content_type, text,
                                                    extract_fields(text), clock))
                         ELSE docs
              /\ origin' = IF ok THEN Append(origin, req[r].content) ELSE origin
    /\ UNCHANGED <<clock, files, ftext, fres, fdone>>

----------------------------------------------------------------------------
(* Inputs of the field rules: the sample text of the documentation and      *)
(* every text made of at most MaxParts pieces.                             *)

MaxParts == 3

InvoiceSample ==
    <<"I", "n", "v", "o", "i", "c", "e", " ", "N", "o", ":", " ", "I", "N", "V", "-", "2",
      "0", "2", "3", "-", "0", "4", "5", ",", " ", "c", "o", "n", "t", "a", "c", "t", " ", "b",
      "i", "l", "l", "i", "n", "g", "@", "e", "x", "a", "m", "p", "l", "e", ".", "c", "o", "m",
      ",", " ", "$", "1", ",", "2", "5", "0", ".", "0", "0", " ", "d", "u", "e", " ", "1", "2",
      "/", "3", "1", "/", "2", "0", "2", "3">>

Pieces ==
    { <<"I", "n", "v", "o", "i", "c", "e">>,
      <<"N", "o">>,
      <<"n", "u", "m", "b", "e", "r">>,
      <<"#">>, <<":">>, <<" ">>, <<",">>, <<"$">>, <<"7">>,
      <<"I", "N", "V", "-", "7">>,
      <<"1", "/", "2", "/", "2", "3">>,
      <<"b", "o", "b", "@", "x", ".", "i", "o">>,
      <<"b", "2", "@", "x", ".", "i", "o">>,
      <<"i", "n", "v", "o", "i", "c", "e", "s", "@", "x", ".", "i", "o">> }

FieldTexts ==
    {InvoiceSample} \cup
    {Concat(ps) : ps \in UNION {[1..k -> Pieces] : k \in 0..MaxParts}}

FieldsInit ==
    /\ UploadInit
    /\ ftext \in FieldTexts
    /\ fres = NoFields
    /\ fdone = FALSE

\* fields = extract_fields(extracted_text)
ApplyFields ==
    /\ ~fdone
    /\ fres' = extract_fields(ftext)
    /\ fdone' = TRUE
    /\ UNCHANGED <<ftext, clock, files, docs, origin, req>>

FieldsNext == ApplyFields

SpecFields == FieldsInit /\ [][FieldsNext]_vars

----------------------------------------------------------------------------
(* Concurrent uploads: a few payloads, two file names that differ only in   *)
(* a space, every backend.                                                 *)

FileNames == { <<"a", " ", "b">>, <<"a", "_", "b">> }

SomePayloads ==
    { [kind |-> "pdf", pages |-> << <<"a">> >>, ocr |-> << <<>> >>],
      [kind |-> "image", pages |-> <<>>, ocr |-> << <<"7", "\n">> >>] }

SomeTypes == {PDF, "image/png"}

Next ==
    \/ Tick
    \/ \E r \in Reqs : UploadRead(r, SomePayloads, FileNames, SomeTypes)
    \/ \E r \in Reqs : UploadOpen(r)
    \/ \E r \in Reqs : UploadWrite(r)
    \/ \E r \in Reqs : UploadProcess(r, Backends)

Spec == Init /\ [][Next]_vars

(* One upload, every payload, declared type and backend.                   *)

AllPayloads == Pdfs \cup Images \cup {Garbage}

AllTypes == ImageTypes \cup {PDF, "", "text/plain"}

NextExtract ==
    \/ UploadRead(1, AllPayloads, {<<"a", " ", "b">>}, AllTypes)
    \/ UploadOpen(1)
    \/ UploadWrite(1)
    \/ UploadProcess(1, Backends)

SpecExtract == Init /\ [][NextExtract]_vars

----------------------------------------------------------------------------
(* The claims about the PDF path, checked under SpecExtract.               *)

\* a finished upload declared and opened as a PDF
PdfDone(r) ==
    /\ req[r].pc = "done"
    /\ req[r].content_type = PDF
    /\ req[r].content.kind = "pdf"

\* some page has selectable text that is not all whitespace
HasSelectableText(b) ==
    \E k \in DOMAIN b.pages : \E j \in DOMAIN b.pages[k] : b.pages[k][j] \notin WS

\* no page has any selectable text
ZeroSelectableText(b) == \A k \in DOMAIN b.pages : b.pages[k] = <<>>

\* the rasterizer or an OCR call fails during phase 2 of a PDF of n pages
BackendFails(be, n) == be.raster /= "ok" \/ be.ocrFailAt \in 1..n

\* the per-page OCR outputs in page order with a newline between them,
\* built from the last page backwards
RECURSIVE PageOrdered(_)
PageOrdered(outs) ==
    IF Len(outs) = 0 THEN <<>>
    ELSE IF Len(outs) = 1 THEN outs[1]
    ELSE PageOrdered(SubSeq(outs, 1, Len(outs) - 1)) \o <<"\n">> \o outs[Len(outs)]

\* C1: in the PDF path, when at least one page yields non-whitespace
\* selectable text, neither the OCR backend nor the rasterizer is invoked,
\* whatever the other pages hold.
C1_NoOcrWhenSelectableText ==
    \A r \in Reqs :
        (PdfDone(r) /\ HasSelectableText(req[r].content))
            => (req[r].ocrCalls = <<>> /\ req[r].rasterCalls = 0)

\* a finished PDF upload with text on one page and none on another
C1_Witness ==
    \E r \in Reqs :
        /\ PdfDone(r)
        /\ HasSelectableText(req[r].content)
        /\ \E k \in DOMAIN req[r].content.pages : req[r].content.pages[k] = <<>>
        /\ req[r].outcome = "ok"
        /\ req[r].returned /= <<>>

C3_BackendFailureGivesEmptyText ==
    \A r \in Reqs :
        (/\ PdfDone(r)
         /\ ~HasSelectableText(req[r].content)
         /\ BackendFails(req[r].backend, Len(req[r].content.pages)))
            => /\ req[r].outcome = "ok"
               /\ req[r].returned = <<>>
               /\ req[r].text = <<>>

\* the OCR of page 2 fails after page 1 was read and gave text
C3_Witness ==
    \E r \in Reqs :
        /\ PdfDone(r)
        /\ ~HasSelectableText(req[r].content)
        /\ req[r].backend.raster = "ok"
        /\ req[r].backend.ocrFailAt = 2
        /\ Len(req[r].content.pages) >= 2
        /\ req[r].content.ocr[1] = <<"y">>
        /\ req[r].ocrCalls = <<1, 2>>
        /\ req[r].outcome = "ok"

----------------------------------------------------------------------------
(* The claims about the dispatch on the declared type, under SpecExtract.  *)

\* the OCR backend has nothing to read from the payload
Textless(b) ==
    /\ ~HasSelectableText(b)
    /\ \A k \in DOMAIN b.ocr : Strip(b.ocr[k]) = <<>>

\* C4: for a declared type of the supported image set the extraction never
\* throws; it returns the OCR backend's output for the image, and the empty
\* string when the backend is unavailable or fails.
C4_ImageTypeNeverThrows ==
    \A r \in Reqs :
        (/\ req[r].pc = "done"
         /\ req[r].content_type \in ImageTypes
         /\ req[r].content.kind = "image")
            => /\ req[r].outcome = "ok"
               /\ req[r].returned = IF req[r].backend.ocrFailAt = 1
                                    THEN <<>>
                                    ELSE req[r].content.ocr[1]

\* C5: an upload is rejected as "unsupported type" exactly when the declared
\* type is neither an image type nor PDF and the payload does not decode as
\* an image; with an unknown type and a decodable image, a failure of the
\* OCR backend gives empty text, not that rejection.
C5_UnsupportedIffUndecodable ==
    \A r \in Reqs :
        req[r].pc = "done"
            => /\ (req[r].outcome = "unsupported")
                    <=> (/\ req[r].content_type \notin ImageTypes \cup {PDF}
                         /\ req[r].content.kind /= "image")
               /\ (/\ req[r].content_type \notin ImageTypes \cup {PDF}
                   /\ req[r].content.kind = "image"
                   /\ req[r].backend.ocrFailAt = 1)
                      => (req[r].outcome = "ok" /\ req[r].text = <<>>)

\* the payload cannot be opened as the type it is declared to be
Unopenable(r) ==
    \/ req[r].content_type = PDF /\ req[r].content.kind /= "pdf"
    \/ req[r].content_type \in ImageTypes /\ req[r].content.kind /= "image"

\* the payload opens as its declared type and holds no text
ValidTextless(r) ==
    /\ \/ req[r].content_type = PDF /\ req[r].content.kind = "pdf"
       \/ req[r].content_type \in ImageTypes /\ req[r].content.kind = "image"
    /\ Textless(req[r].content)

\* C6: a payload that cannot be opened as its declared type ends in a
\* failure, never in a successful result with empty text; a valid but
\* textless document ends in a successful result with empty text.
C6_CorruptFailsTextlessSucceeds ==
    \A r \in Reqs :
        req[r].pc = "done"
            => /\ Unopenable(r) => req[r].outcome /= "ok"
               /\ ValidTextless(r) => (req[r].outcome = "ok" /\ req[r].text = <<>>)

\* The first half of C6 alone: an unopenable payload never gives a result.
C6_CorruptNeverSucceeds ==
    \A r \in Reqs :
        (req[r].pc = "done" /\ Unopenable(r))
            => (req[r].outcome = "raised" /\ req[r].id = 0 /\ docs = <<>>)

----------------------------------------------------------------------------
(* The claims about extract_fields, checked under SpecFields.              *)

\* sub occurs in s
Contains(s, sub) ==
    \E i \in 1..(Len(s) - Len(sub) + 1) : SubSeq(s, i, i + Len(sub) - 1) = sub

\* C7: on the sample text the invoice number is INV-2023-045, the email
\* billing@example.com, the date 12/31/2023, and the amount contains
\* 1,250.00.
C7_SampleFields ==
    (fdone /\ ftext = InvoiceSample)
        => /\ fres.invoice_number =
                  <<"I", "N", "V", "-", "2", "0", "2", "3", "-", "0", "4", "5">>
           /\ fres.email =
                  <<"b", "i", "l", "l", "i", "n", "g", "@", "e", "x", "a", "m", "p",
                    "l", "e", ".", "c", "o", "m">>
           /\ fres.date = <<"1", "2", "/", "3", "1", "/", "2", "0", "2", "3">>
           /\ Contains(fres.amount, <<"1", ",", "2", "5", "0", ".", "0", "0">>)

\* the rest of C7: every field of the sample but the amount is as stated
C7_SampleFieldsButAmount ==
    (fdone /\ ftext = InvoiceSample)
        => /\ fres.invoice_number =
                  <<"I", "N", "V", "-", "2", "0", "2", "3", "-", "0", "4", "5">>
           /\ fres.email =
                  <<"b", "i", "l", "l", "i", "n", "g", "@", "e", "x", "a", "m", "p",
                    "l", "e", ".", "c", "o", "m">>
           /\ fres.date = <<"1", "2", "/", "3", "1", "/", "2", "0", "2", "3">>
           /\ fres.amount = <<"2", "0", "2">>

\* s is a well-formed email address and nothing more
IsEmail(s) == s /= <<>> /\ EmailSearch(s) = s

\* s matches none of the invoice, amount and date patterns
MatchesNoOtherRule(s) ==
    /\ InvoiceSearch(s) = None
    /\ AmountSearch(s) = None
    /\ DateSearch(s) = None

\* ftext is an email address between material that matches no other rule
EmailAmongNeutralText ==
    \E i \in 1..Len(ftext) : \E j \in i..Len(ftext) :
        /\ IsEmail(SubSeq(ftext, i, j))
        /\ MatchesNoOtherRule(SubSeq(ftext, 1, i - 1))
        /\ MatchesNoOtherRule(SubSeq(ftext, j + 1, Len(ftext)))

\* C8: for a text that is a well-formed email address plus surrounding
\* material matching none of the other three patterns, only the email field
\* is set, also when the address holds digits or the letters of "invoice".
C8_OnlyEmailPopulated ==
    (fdone /\ EmailAmongNeutralText)
        => /\ fres.email /= None
           /\ fres.invoice_number = None
           /\ fres.amount = None
           /\ fres.date = None

LowerText(s) == [k \in DOMAIN s |-> Lower(s[k])]

\* the label word that stands right after "invoice" and its whitespace in the
\* first match, <<>> when none does
LabelWordAfterInvoice(t) ==
    LET p    == InvoiceStart(t) + Len(INVOICE)
        q    == p + Run(t, p, WS, Len(t))
        hits == {w \in {InvoiceLabels[1], InvoiceLabels[3]} :
                    Lit(t, q, w, TRUE) /\ Run(t, q, TOKEN, Len(t)) = Len(w)}
    IN  IF InvoiceStart(t) = 0 \/ hits = {} THEN <<>> ELSE CHOOSE w \in hits : TRUE

\* C9: when the invoice number is set it is the token after the label, never
\* the label word "no" or "number" that follows "invoice", also when no
\* token character follows the label.
C9_InvoiceNumberIsNotLabelWord ==
    (fdone /\ fres.invoice_number /= None /\ LabelWordAfterInvoice(ftext) /= <<>>)
        => LowerText(fres.invoice_number) /= LabelWordAfterInvoice(ftext)

----------------------------------------------------------------------------
(* The claim about stored files, checked under Spec.                       *)

\* no upload is between its first and its last step
Quiescent == \A r \in Reqs : req[r].pc \in {"read", "done"}

\* C10: after any interleaving of uploads, once none is in flight, every
\* document's filename names a stored file whose content is the payload its
\* text was extracted from (no upload's file was overwritten by another's),
\* and distinct documents have distinct stored filenames.
C10_StoredFileIsTheSource ==
    Quiescent
        => /\ \A k \in DOMAIN docs :
                 /\ docs[k].filename \in DOMAIN files
                 /\ files[docs[k].filename] = origin[k]
           /\ \A k, m \in DOMAIN docs :
                 k /= m => docs[k].filename /= docs[m].filename

====
